---- MODULE Spec2Model ----
(***************************************************************************)
(* Model of the active-learning notebook (active_classifictaion.ipynb and  *)
(* its near-duplicate): the Oracle class, the random baseline iteration    *)
(* and the function run_active_learning, over a pool of M molecules.       *)
(*                                                                         *)
(* Pool rows are indexed 0..M-1 as in the code; index lists (numpy arrays) *)
(* are sequences of indices.  The calls into numpy, modAL and scikit-learn *)
(* are modelled by what they return: np.random.choice(.., replace=False)   *)
(* is a nondeterministic choice of an ordered sample without repetition,   *)
(* learner.query a nondeterministic choice of a batch of row indices, and  *)
(* the learner is the training data it has accumulated.                    *)
(***************************************************************************)
EXTENDS Integers, Sequences, FiniteSets, TLC

\* ----------------------------------------------------------------- bounds
\* Pool size len(df) (100,000 rows in data/screen.csv).
M == 2
\* Largest num_cycles passed to run_active_learning (the default is 10).
MaxCycles == 2
\* Longest index list handed to Oracle.get_values in the Oracle harness.
MaxIdxLen == 2
\* Iterations of the baseline loop and of the trial loop (10 in the notebook).
NumTrials == 2
\* Cycles of the walkthrough loop, "for i in range(0, 10)", and the default
\* num_cycles=10 of run_active_learning: one number in the notebook, scaled
\* with the other cycle bound here.
WalkCycles == MaxCycles
DefaultCycles == MaxCycles

\* ---------------------------------------------------------------- values
Idx == 0 .. (M - 1)
Labels == 0 .. 1
\* A label column: df.y.values, one 0/1 label per pool row.
LabelVectors == [Idx -> Labels]
\* Sample sizes considered for n_initial, n_instances and the baseline
\* size: empty, every size the pool can serve, and one size it cannot.
SampleSizes == 0 .. (M + 1)

\* np.stack(df.fp.values): the fingerprint of row j is represented by the
\* token j (fingerprint generation is outside the notebook).
Fingerprints == [j \in Idx |-> j]

\* ------------------------------------------------------- numpy operations
\* numpy indexing of an array of M entries: an index j is valid when
\* -M <= j < M, a negative j counting from the end; any other j raises
\* IndexError.
IndexRaises(idx_list) ==
    \E p \in 1 .. Len(idx_list) : idx_list[p] < 0 - M \/ idx_list[p] >= M

NpIndex(j) == IF j < 0 THEN j + M ELSE j

\* arr[idx_list] with an index list: the entries of arr at those indices,
\* in the order of idx_list.
Take(arr, idx_list) ==
    [p \in 1 .. Len(idx_list) |-> arr[NpIndex(idx_list[p])]]

\* Number of positions of index list s that hold index j.
Occ(s, j) == Cardinality({p \in 1 .. Len(s) : s[p] = j})

\* Builtin sum() over an array.
RECURSIVE SumSeq(_)
SumSeq(s) == IF s = << >> THEN 0 ELSE Head(s) + SumSeq(Tail(s))

\* Variant of NpAppend: the new array replaces the old one.
NpAppendReplaces(a, b) == b

\* Variant of NpAppend: the arguments swapped, np.append(b, a).
NpAppendFront(a, b) == b \o a

\* Variant of NpAppend: only the entries of b that a does not hold yet.
NpAppendUnseen(a, b) == a \o SelectSeq(b, LAMBDA x : Occ(a, x) = 0)

\* np.append(a, b): a followed by b.
NpAppend(a, b) == a \o b

\* Ordered samples of `size` distinct indices of range(len(df)).
DistinctSamples(size) ==
    {s \in [1 .. size -> Idx] : \A a, b \in 1 .. size : a # b => s[a] # s[b]}

\* np.random.choice(range(len(df)), size=size, replace=False) raises
\* ValueError when size exceeds the population.
ChoiceRaises(size) == size > M

\* Variant of RandomChoice: the draw made with replace=True.
RandomChoiceWithReplacement(size) == [1 .. size -> Idx]

\* np.random.choice(range(len(df)), size=size, replace=False): the set of
\* arrays it can return.
RandomChoice(size) == DistinctSamples(size)

\* ------------------------------------------------------- modAL operations
NoLearner == [X_training |-> << >>, y_training |-> << >>]

\* ActiveLearner(estimator=RandomForestClassifier(), X_training, y_training)
\* fits the estimator on the given data; fitting on zero rows raises.
FitRaises(Xt, yt) == Len(Xt) = 0

\* The learner after construction: it holds its training data.
ActiveLearner(Xt, yt) == [X_training |-> Xt, y_training |-> yt]

\* learner.query(X_pool, n_instances=n): the default uncertainty sampling
\* ranks all rows of the pool it is given and returns the n top ones
\* (distinct rows); it raises when n exceeds the number of rows.
QueryRaises(n) == n > M

\* Variant of QueryResults: the rows numbered from one.
QueryResultsOneBased(l, pool, n) ==
    {[p \in 1 .. n |-> s[p] + 1] :
        s \in {t \in [1 .. n -> DOMAIN pool] :
                  \A a, b \in 1 .. n : a # b => t[a] # t[b]}}

\* The batches learner.query(pool, n_instances=n) can return.
QueryResults(l, pool, n) ==
    {s \in [1 .. n -> DOMAIN pool] : \A a, b \in 1 .. n : a # b => s[a] # s[b]}

\* Variant of Teach: learner.fit(X, y), which keeps the new rows only.
TeachFitsAnew(l, Xn, yn) == [X_training |-> Xn, y_training |-> yn]

\* learner.teach(X, y): the new rows are added to the training data and
\* the estimator is refitted on all of it.
Teach(l, Xn, yn) ==
    [X_training |-> l.X_training \o Xn, y_training |-> l.y_training \o yn]

\* ----------------------------------------------------------------- state
VARIABLES
    df,             \* global df: its label column df.y.values
    X_pool,         \* global X_pool = np.stack(df.fp.values)
    y_pool,         \* global y_pool = df.y.values
    n_initial,      \* global n_initial
    n_instances,    \* global n_instances
    initial_list,   \* global initial_list (cell "n_initial = 100 ...")
    X_training,     \* global X_training = X_pool[initial_list]
    y_training,     \* global y_training = y_pool[initial_list]
    oracle,         \* global oracle: the Oracle instance, [df |-> self.df]
    pc,             \* control position
    X, y,           \* run_active_learning: arguments X and y
    f_oracle,       \* run_active_learning: argument oracle
    num_cycles,     \* run_active_learning: argument num_cycles
    f_initial_list, \* run_active_learning: local initial_list
    f_pick_list,    \* run_active_learning: local pick_list
    f_learner,      \* run_active_learning: local learner
    i,              \* run_active_learning: completed iterations of the loop
    query_idx,      \* run_active_learning: local query_idx
    y_new,          \* run_active_learning: local y_new; result of get_values
    num_hits,       \* value returned by run_active_learning (-1: none)
    baseline_k,     \* baseline: the size requested of np.random.choice
    random_list,    \* baseline: random_list
    random_hit_count_list,  \* baseline: the list of hit counts
    idx_arg,        \* Oracle harness: the idx_list of the last get_values
    err,            \* the exception that ended the run ("" : none)
    learner,        \* global learner (walkthrough)
    pick_list,      \* global pick_list (walkthrough)
    g_query_idx,    \* global query_idx (walkthrough loop)
    g_y_new,        \* global y_new (walkthrough loop)
    g_i,            \* walkthrough loop: completed iterations
    query_pool,     \* run_active_learning: the pool handed to learner.query
    active_learning_hit_count_list,  \* trial loop: the list of hit counts
    enrichment      \* the ratio of the last cell, [num, den] for num / den

walk == <<learner, pick_list, g_query_idx, g_y_new, g_i>>
results == <<active_learning_hit_count_list, enrichment>>
globals == <<df, X_pool, y_pool, n_initial, n_instances, initial_list,
             X_training, y_training, oracle, walk, results>>
frame == <<X, y, f_oracle, num_cycles, f_initial_list, f_pick_list,
           f_learner, i, query_idx, y_new, num_hits, query_pool>>
baseline == <<baseline_k, random_list, random_hit_count_list>>
vars == <<globals, frame, baseline, pc, idx_arg, err>>

\* ---------------------------------------------------------------- Oracle
\* class Oracle: __init__(self, df) stores the frame in self.df.
OracleInit(d) == [df |-> d]

\* Oracle.get_values(self, idx_list): "return df.y.values[idx_list]".  The
\* body reads the module-level name df, not self.df.
get_values(self, idx_list) == Take(df, idx_list)

\* An oracle of another kind handed to run_active_learning: any object
\* with a get_values method, answering with values of its own.
OtherOracle(v) == [values |-> v]

\* oracle.get_values(idx_list) on whatever object the name oracle holds.
OracleAnswer(o, idx_list) ==
    IF "df" \in DOMAIN o THEN get_values(o, idx_list)
    ELSE Take(o.values, idx_list)

\* ------------------------------------------------------------ walkthrough
\* learner = ActiveLearner(estimator=RandomForestClassifier(),
\*                         X_training=X_training, y_training=y_training)
\* at module level; the name stays undefined when the fit raises.
WalkLearner ==
    IF FitRaises(X_training, y_training) THEN NoLearner
    ELSE ActiveLearner(X_training, y_training)

\* The module-level learner and pick_list when the loop is entered.
WalkStart == [learner |-> WalkLearner, pick_list |-> initial_list]

\* One iteration of the walkthrough loop whose query returned q:
\* learner.teach(X_pool[q], y_pool[q]); pick_list = np.append(pick_list, q)
WalkCycle(st, q) ==
    [learner |-> Teach(st.learner, Take(X_pool, q), Take(y_pool, q)),
     pick_list |-> NpAppend(st.pick_list, q)]

\* A batch a query for n rows can return: the first n rows.
FirstRows(n) == [p \in 1 .. n |-> p - 1]

\* The walkthrough after c iterations whose queries returned FirstRows.
RECURSIVE WalkedCycles(_)
WalkedCycles(c) ==
    IF c = 0 THEN WalkStart
    ELSE WalkCycle(WalkedCycles(c - 1), FirstRows(n_instances))

\* The walkthrough loop runs through when no step of it raises.
WalkRuns ==
    /\ ~ChoiceRaises(n_initial)
    /\ ~FitRaises(X_training, y_training)
    /\ ~QueryRaises(n_instances)

\* A state the walkthrough cells leave behind: its loop ran through with
\* every query returning FirstRows, or it stopped at the step that raised.
WalkLeftover ==
    /\ learner = (IF WalkRuns THEN WalkedCycles(WalkCycles).learner
                  ELSE WalkStart.learner)
    /\ pick_list = (IF WalkRuns THEN WalkedCycles(WalkCycles).pick_list
                    ELSE WalkStart.pick_list)
    /\ g_query_idx = (IF WalkRuns /\ WalkCycles > 0
                      THEN FirstRows(n_instances) ELSE << >>)
    /\ g_y_new = Take(df, g_query_idx)
    /\ g_i = (IF WalkRuns THEN WalkCycles ELSE 0)

\* The names a cell has not yet defined.
FrameIdle ==
    /\ X = << >> /\ y = << >> /\ f_oracle = OracleInit(<< >>)
    /\ num_cycles = 0
    /\ f_initial_list = << >> /\ f_pick_list = << >>
    /\ f_learner = NoLearner
    /\ i = 0
    /\ query_idx = << >> /\ y_new = << >>
    /\ num_hits = -1
    /\ query_pool = << >>

ResultsIdle ==
    /\ baseline_k = 0 /\ random_list = << >>
    /\ random_hit_count_list = << >>
    /\ active_learning_hit_count_list = << >>
    /\ enrichment = [num |-> 0, den |-> 0]
    /\ idx_arg = << >>
    /\ err = ""

\* ------------------------------------------------------------ initial state
\* The notebook when it reaches the baseline cell and the trial cells: the
\* pool is loaded, n_initial and n_instances are set, initial_list was drawn
\* and X_training / y_training were cut from the pool at initial_list (a
\* draw that raised leaves them empty), oracle = Oracle(df).
InitSizes(initial_sizes, batch_sizes) ==
    /\ df \in LabelVectors
    /\ X_pool = Fingerprints
    /\ y_pool = df
    /\ n_initial \in initial_sizes
    /\ n_instances \in batch_sizes
    /\ initial_list \in (IF ChoiceRaises(n_initial) THEN {<< >>}
                         ELSE RandomChoice(n_initial))
    /\ X_training = Take(X_pool, initial_list)
    /\ y_training = Take(y_pool, initial_list)
    /\ oracle = OracleInit(df)
    /\ pc = "idle"
    /\ WalkLeftover
    /\ FrameIdle
    /\ ResultsIdle

Init == InitSizes(SampleSizes, SampleSizes)

\* ------------------------------------------------- run_active_learning
\* The call run_active_learning(Xa, ya, oa, num_cycles=nc).
Call(Xa, ya, oa, nc) ==
    /\ pc = "idle"
    /\ X' = Xa /\ y' = ya /\ f_oracle' = oa /\ num_cycles' = nc
    /\ pc' = "draw"
    /\ UNCHANGED <<globals, baseline, idx_arg, err, f_initial_list,
                   f_pick_list, f_learner, i, query_idx, y_new, num_hits, query_pool>>

\* initial_list = np.random.choice(range(len(df)), size=n_initial,
\* replace=False); pick_list = initial_list
DrawInitial ==
    /\ pc = "draw"
    /\ IF ChoiceRaises(n_initial)
       THEN /\ pc' = "raised" /\ err' = "ValueError"
            /\ UNCHANGED <<f_initial_list, f_pick_list>>
       ELSE /\ \E s \in RandomChoice(n_initial) :
                  /\ f_initial_list' = s
                  /\ f_pick_list' = s
            /\ pc' = "fit" /\ err' = err
    /\ UNCHANGED <<globals, baseline, idx_arg, X, y, f_oracle, num_cycles,
                   f_learner, i, query_idx, y_new, num_hits, query_pool>>

\* Variant of FitData: the data the module-level learner has gathered.
FitDataCarriedOver == [Xt |-> learner.X_training, yt |-> learner.y_training]

\* The data the function hands to ActiveLearner: the module-level
\* X_training and y_training.
FitData == [Xt |-> X_training, yt |-> y_training]

\* learner = ActiveLearner(estimator=RandomForestClassifier(),
\*                         X_training=X_training, y_training=y_training)
FitLearner ==
    /\ pc = "fit"
    /\ IF FitRaises(FitData.Xt, FitData.yt)
       THEN /\ pc' = "raised" /\ err' = "ValueError"
            /\ UNCHANGED <<f_learner, i>>
       ELSE /\ f_learner' = ActiveLearner(FitData.Xt, FitData.yt)
            /\ i' = 0
            /\ pc' = "loop" /\ err' = err
    /\ UNCHANGED <<globals, baseline, idx_arg, X, y, f_oracle, num_cycles,
                   f_initial_list, f_pick_list, query_idx, y_new, num_hits, query_pool>>

\* Variant of QueryPool: the rows not yet in the selection set.
QueryPoolUnpicked ==
    [j \in {r \in DOMAIN X_pool : Occ(f_pick_list, r) = 0} |-> X_pool[j]]

\* Variant of QueryPool: the function's argument X.
QueryPoolArgument == X

\* The pool the function hands to learner.query: the module-level X_pool.
QueryPool == X_pool

\* Variant of Query: the loop runs over range(0, num_cycles + 1).
QueryOneMore ==
    /\ pc = "loop"
    /\ i <= num_cycles
    /\ IF QueryRaises(n_instances)
       THEN /\ pc' = "raised" /\ err' = "AssertionError"
            /\ UNCHANGED query_idx
       ELSE /\ query_idx' \in QueryResults(f_learner, QueryPool, n_instances)
            /\ pc' = "oracle" /\ err' = err
    /\ query_pool' = QueryPool
    /\ UNCHANGED <<globals, baseline, idx_arg, X, y, f_oracle, num_cycles,
                   f_initial_list, f_pick_list, f_learner, i, y_new,
                   num_hits>>

\* for i in tqdm(range(0, num_cycles)):
\*     query_idx, query_inst = learner.query(X_pool, n_instances=n_instances)
Query ==
    /\ pc = "loop"
    /\ i < num_cycles
    /\ IF QueryRaises(n_instances)
       THEN /\ pc' = "raised" /\ err' = "AssertionError"
            /\ UNCHANGED query_idx
       ELSE /\ query_idx' \in QueryResults(f_learner, QueryPool, n_instances)
            /\ pc' = "oracle" /\ err' = err
    /\ query_pool' = QueryPool
    /\ UNCHANGED <<globals, baseline, idx_arg, X, y, f_oracle, num_cycles,
                   f_initial_list, f_pick_list, f_learner, i, y_new,
                   num_hits>>

\* y_new = oracle.get_values(query_idx)
OracleLookup ==
    /\ pc = "oracle"
    /\ IF IndexRaises(query_idx)
       THEN /\ pc' = "raised" /\ err' = "IndexError"
            /\ UNCHANGED y_new
       ELSE /\ y_new' = OracleAnswer(f_oracle, query_idx)
            /\ pc' = "teach" /\ err' = err
    /\ UNCHANGED <<globals, baseline, idx_arg, X, y, f_oracle, num_cycles,
                   f_initial_list, f_pick_list, f_learner, i, query_idx,
                   num_hits, query_pool>>

\* Variant of TeachLearner: the taught rows are also taken out of the
\* pool (X_pool = np.delete(X_pool, query_idx, axis=0), rows shown as -1).
TeachLearnerConsumesPool ==
    /\ pc = "teach"
    /\ f_learner' = Teach(f_learner, Take(X_pool, query_idx),
                          Take(y_pool, query_idx))
    /\ X_pool' = [j \in DOMAIN X_pool |->
                     IF Occ(query_idx, j) > 0 THEN -1 ELSE X_pool[j]]
    /\ pc' = "append"
    /\ UNCHANGED <<df, y_pool, n_initial, n_instances, initial_list,
                   X_training, y_training, oracle, walk, results, baseline,
                   idx_arg, err, X, y, f_oracle, num_cycles, f_initial_list,
                   f_pick_list, i, query_idx, y_new, num_hits, query_pool>>

\* learner.teach(X_pool[query_idx], y_pool[query_idx])
TeachLearner ==
    /\ pc = "teach"
    /\ f_learner' = Teach(f_learner, Take(X_pool, query_idx),
                          Take(y_pool, query_idx))
    /\ pc' = "append"
    /\ UNCHANGED <<globals, baseline, idx_arg, err, X, y, f_oracle,
                   num_cycles, f_initial_list, f_pick_list, i, query_idx,
                   y_new, num_hits, query_pool>>

\* pick_list = np.append(pick_list, query_idx), and the loop advances.
AppendPicks ==
    /\ pc = "append"
    /\ f_pick_list' = NpAppend(f_pick_list, query_idx)
    /\ i' = i + 1
    /\ pc' = "loop"
    /\ UNCHANGED <<globals, baseline, idx_arg, err, X, y, f_oracle,
                   num_cycles, f_initial_list, f_learner, query_idx, y_new,
                   num_hits, query_pool>>

\* Variant of Tally: each selected index is counted once.
TallyDedup(labels, picks) ==
    LET chosen == {picks[p] : p \in 1 .. Len(picks)}
    IN  Cardinality({j \in chosen : labels[j] = 1})

\* Variant of Tally: the initial sample is counted a second time.
TallyRecountsInitial(labels, picks) ==
    SumSeq(Take(labels, picks)) + SumSeq(Take(labels, f_initial_list))

\* Variant of Tally: the picks are counted, not their labels.
TallyCountsPicks(labels, picks) == Len(picks)

\* The value of the return statement: sum(y[pick_list]).
Tally(labels, picks) == SumSeq(Take(labels, picks))

\* Variant of Return: the return statement indented into the loop body.
ReturnInsideLoop ==
    /\ pc = "loop"
    /\ i >= 1 \/ i >= num_cycles
    /\ num_hits' = Tally(y, f_pick_list)
    /\ pc' = "returned"
    /\ UNCHANGED <<globals, baseline, idx_arg, err, X, y, f_oracle,
                   num_cycles, f_initial_list, f_pick_list, f_learner, i,
                   query_idx, y_new, query_pool>>

\* return sum(y[pick_list])
Return ==
    /\ pc = "loop"
    /\ i >= num_cycles
    /\ num_hits' = Tally(y, f_pick_list)
    /\ pc' = "returned"
    /\ UNCHANGED <<globals, baseline, idx_arg, err, X, y, f_oracle,
                   num_cycles, f_initial_list, f_pick_list, f_learner, i,
                   query_idx, y_new, query_pool>>

\* ------------------------------------------------------- random baseline
\* random_list = np.random.choice(range(len(df)), size=k, replace=False)
\* (the notebook asks for k = 1000 of its 100,000 rows).
RandomDraw(k) ==
    /\ pc = "idle"
    /\ baseline_k' = k
    /\ IF ChoiceRaises(k)
       THEN /\ pc' = "raised" /\ err' = "ValueError"
            /\ UNCHANGED random_list
       ELSE /\ random_list' \in RandomChoice(k)
            /\ pc' = "b_tally" /\ err' = err
    /\ UNCHANGED <<globals, frame, idx_arg, random_hit_count_list>>

\* Variant of BaselineTally: the picks are counted, not their labels.
BaselineTallyCountsPicks(picks) == Len(picks)

\* Variant of BaselineTally: the sum runs over the walkthrough's selection
\* set as well.
BaselineTallyWithSelection(picks) == SumSeq(Take(df, pick_list \o picks))

\* The baseline's hit count: sum(df.y.values[random_list]).
BaselineTally(picks) == SumSeq(Take(df, picks))

\* random_hit_count_list.append(sum(df.y.values[random_list]))
RandomAppend ==
    /\ pc = "b_tally"
    /\ random_hit_count_list' =
           Append(random_hit_count_list, BaselineTally(random_list))
    /\ pc' = "b_done"
    /\ UNCHANGED <<globals, frame, idx_arg, err, baseline_k, random_list>>

\* ------------------------------------------------------------------ Spec
\* One baseline iteration or one call run_active_learning(X_pool, y_pool,
\* oracle, num_cycles) as the trial cell makes it.
Next ==
    \/ \E nc \in 0 .. MaxCycles : Call(X_pool, y_pool, oracle, nc)
    \/ DrawInitial
    \/ FitLearner
    \/ Query
    \/ OracleLookup
    \/ TeachLearner
    \/ AppendPicks
    \/ Return
    \/ \E k \in SampleSizes : RandomDraw(k)
    \/ RandomAppend

Spec == Init /\ [][Next]_vars

\* ------------------------------------------- calls with other arguments
\* run_active_learning called with arguments of the caller's choice: any
\* feature matrix X, any label vector y, the notebook's oracle or an oracle
\* of another kind, while one row is sampled and one row queried at a time.
ArgMatrices == {Fingerprints, [j \in Idx |-> M - 1 - j]}

OracleArgs == {oracle} \cup {OtherOracle(v) : v \in LabelVectors}

OneRow == {1}

InitArgs == InitSizes(OneRow, OneRow)

NextArgs ==
    \/ \E Xa \in ArgMatrices, ya \in LabelVectors, oa \in OracleArgs,
          nc \in 0 .. MaxCycles : Call(Xa, ya, oa, nc)
    \/ DrawInitial
    \/ FitLearner
    \/ Query
    \/ OracleLookup
    \/ TeachLearner
    \/ AppendPicks
    \/ Return

SpecArgs == InitArgs /\ [][NextArgs]_vars

\* ------------------------------------------------------ the trial loop
\* The cell that runs the trials, after the walkthrough cells:
\*   active_learning_hit_count_list = []
\*   for i in range(0, 10):
\*       num_hits = run_active_learning(X_pool, y_pool, oracle)
\*       active_learning_hit_count_list.append(num_hits)
\* The loop variable is the module-level i.  The names of a call that has
\* returned keep their last values until the next call binds them again.
InitSession == InitSizes(OneRow, OneRow)

\* active_learning_hit_count_list = []
DriverStart ==
    /\ pc = "idle"
    /\ active_learning_hit_count_list' = << >>
    /\ pc' = "t_loop"
    /\ UNCHANGED <<df, X_pool, y_pool, n_initial, n_instances, initial_list,
                   X_training, y_training, oracle, walk, enrichment, frame,
                   baseline, idx_arg, err>>

\* for i in range(0, 10): run_active_learning(X_pool, y_pool, oracle)
DriverCall ==
    /\ pc = "t_loop"
    /\ Len(active_learning_hit_count_list) < NumTrials
    /\ g_i' = Len(active_learning_hit_count_list)
    /\ X' = X_pool /\ y' = y_pool /\ f_oracle' = oracle
    /\ num_cycles' = DefaultCycles
    /\ pc' = "draw"
    /\ UNCHANGED <<df, X_pool, y_pool, n_initial, n_instances, initial_list,
                   X_training, y_training, oracle, learner, pick_list,
                   g_query_idx, g_y_new, results, baseline, idx_arg, err,
                   f_initial_list, f_pick_list, f_learner, i, query_idx,
                   y_new, num_hits, query_pool>>

\* Variant of DriverAppend: the append sits in a finally clause.
DriverAppendAlways ==
    /\ pc \in {"returned", "raised"}
    /\ Len(active_learning_hit_count_list) < NumTrials
    /\ active_learning_hit_count_list' =
           Append(active_learning_hit_count_list, num_hits)
    /\ pc' = "t_loop"
    /\ UNCHANGED <<df, X_pool, y_pool, n_initial, n_instances, initial_list,
                   X_training, y_training, oracle, walk, enrichment, frame,
                   baseline, idx_arg, err>>

\* active_learning_hit_count_list.append(num_hits)
DriverAppend ==
    /\ pc = "returned"
    /\ active_learning_hit_count_list' =
           Append(active_learning_hit_count_list, num_hits)
    /\ pc' = "t_loop"
    /\ UNCHANGED <<df, X_pool, y_pool, n_initial, n_instances, initial_list,
                   X_training, y_training, oracle, walk, enrichment, frame,
                   baseline, idx_arg, err>>

NextSession ==
    \/ DriverStart
    \/ DriverCall
    \/ DrawInitial
    \/ FitLearner
    \/ Query
    \/ OracleLookup
    \/ TeachLearner
    \/ AppendPicks
    \/ Return
    \/ DriverAppend

SpecSession == InitSession /\ [][NextSession]_vars

\* ------------------------------------------------- one call, to its end
\* One call run_active_learning(X_pool, y_pool, oracle, num_cycles) that is
\* not held up: the function is straight-line code around one for loop, so
\* as long as a statement can run (its library calls return) it does run.
InitTermination == InitSizes({1, M + 1}, {1, M + 1})

NextTermination ==
    \/ \E nc \in 0 .. MaxCycles : Call(X_pool, y_pool, oracle, nc)
    \/ DrawInitial
    \/ FitLearner
    \/ Query
    \/ OracleLookup
    \/ TeachLearner
    \/ AppendPicks
    \/ Return

SpecTermination ==
    InitTermination /\ [][NextTermination]_vars /\ WF_vars(NextTermination)

\* ----------------------------------------------- the trial loop, failing
\* The trial loop where a statement of run_active_learning may raise for a
\* reason of its own (a library call that fails, an interrupt), besides the
\* failures the sizes bring about.  The function has no try / except and
\* neither has the loop around it: the exception leaves both.
FaultSizes == {1, M + 1}

InitFaulty == InitSizes(FaultSizes, FaultSizes)

\* Variant of StepFails: the exception is caught and the statement retried.
StepFailsAndRetries ==
    /\ pc \in {"draw", "fit", "loop", "oracle", "teach", "append"}
    /\ err = ""
    /\ err' = "Exception"
    /\ UNCHANGED <<globals, frame, baseline, idx_arg, pc>>

\* A statement of the running call raises.
StepFails ==
    /\ pc \in {"draw", "fit", "loop", "oracle", "teach", "append"}
    /\ pc' = "raised" /\ err' = "Exception"
    /\ UNCHANGED <<globals, frame, baseline, idx_arg>>

NextFaulty ==
    \/ DriverStart
    \/ DriverCall
    \/ DrawInitial
    \/ FitLearner
    \/ Query
    \/ OracleLookup
    \/ TeachLearner
    \/ AppendPicks
    \/ Return
    \/ DriverAppend
    \/ StepFails

SpecFaulty == InitFaulty /\ [][NextFaulty]_vars

\* ------------------------------------------------ the notebook's sizes
\* n_initial = 100
NotebookInitial == 100

\* n_instances = 100
NotebookInstances == 100

\* def run_active_learning(X, y, oracle, num_cycles=10)
NotebookCycles == 10

\* Variant of BaselineSize: as many indices as a trial selects.
BaselineSizeMatched ==
    NotebookInitial + NotebookCycles * NotebookInstances

\* np.random.choice(range(len(df)), size=1000, replace=False)
BaselineSize == 1000

\* ---------------------------------------------------- the experiment
\* The three result cells in notebook order, each loop iteration taken as
\* one step: the random baseline loop, the trial loop and the ratio cell.

\* The selection sets run_active_learning can hold after c cycles.
RECURSIVE PickListsAfter(_)
PickListsAfter(c) ==
    IF c = 0 THEN RandomChoice(n_initial)
    ELSE {NpAppend(p, q) : p \in PickListsAfter(c - 1),
                           q \in QueryResults(NoLearner, X_pool, n_instances)}

\* run_active_learning(X, y, oracle, num_cycles=nc) raises.
RunRaises(nc) ==
    \/ ChoiceRaises(n_initial)
    \/ FitRaises(X_training, y_training)
    \/ nc > 0 /\ QueryRaises(n_instances)

\* The values run_active_learning(X, ya, oracle, num_cycles=nc) can return.
RunResults(ya, nc) == {Tally(ya, p) : p \in PickListsAfter(nc)}

\* np.mean(s) as the fraction num / den.
Mean(s) == [num |-> SumSeq(s), den |-> Len(s)]

\* Variant of Divide: b / a.
DivideInverted(a, b) == [num |-> b.num * a.den, den |-> b.den * a.num]

\* a / b on fractions; den = 0 stands for the inf or nan numpy yields.
Divide(a, b) == [num |-> a.num * b.den, den |-> a.den * b.num]

InitDriver == InitSizes(OneRow, OneRow)

\* random_hit_count_list = [], with k the literal sample size of the cell.
ExperimentBaselineStart(k) ==
    /\ pc = "idle"
    /\ baseline_k' = k
    /\ random_hit_count_list' = << >>
    /\ pc' = "r_loop"
    /\ UNCHANGED <<globals, frame, random_list, idx_arg, err>>

\* for i in range(0, 10):
\*     random_list = np.random.choice(range(len(df)), size=k, replace=False)
\*     random_hit_count_list.append(sum(df.y.values[random_list]))
ExperimentBaseline ==
    /\ pc = "r_loop"
    /\ Len(random_hit_count_list) < NumTrials
    /\ g_i' = Len(random_hit_count_list)
    /\ IF ChoiceRaises(baseline_k)
       THEN /\ pc' = "raised" /\ err' = "ValueError"
            /\ UNCHANGED <<random_list, random_hit_count_list>>
       ELSE /\ \E s \in RandomChoice(baseline_k) :
                  /\ random_list' = s
                  /\ random_hit_count_list' =
                         Append(random_hit_count_list, BaselineTally(s))
            /\ pc' = "r_loop" /\ err' = err
    /\ UNCHANGED <<df, X_pool, y_pool, n_initial, n_instances, initial_list,
                   X_training, y_training, oracle, learner, pick_list,
                   g_query_idx, g_y_new, results, frame, baseline_k, idx_arg>>

\* active_learning_hit_count_list = []
ExperimentTrialsStart ==
    /\ pc = "r_loop"
    /\ Len(random_hit_count_list) >= NumTrials
    /\ active_learning_hit_count_list' = << >>
    /\ pc' = "t_loop"
    /\ UNCHANGED <<df, X_pool, y_pool, n_initial, n_instances, initial_list,
                   X_training, y_training, oracle, walk, enrichment, frame,
                   baseline, idx_arg, err>>

\* for i in range(0, 10):
\*     num_hits = run_active_learning(X_pool, y_pool, oracle)
\*     active_learning_hit_count_list.append(num_hits)
ExperimentTrial ==
    /\ pc = "t_loop"
    /\ Len(active_learning_hit_count_list) < NumTrials
    /\ g_i' = Len(active_learning_hit_count_list)
    /\ IF RunRaises(DefaultCycles)
       THEN /\ pc' = "raised" /\ err' = "ValueError"
            /\ UNCHANGED <<num_hits, active_learning_hit_count_list>>
       ELSE /\ \E h \in RunResults(y_pool, DefaultCycles) :
                  /\ num_hits' = h
                  /\ active_learning_hit_count_list' =
                         Append(active_learning_hit_count_list, h)
            /\ pc' = "t_loop" /\ err' = err
    /\ UNCHANGED <<df, X_pool, y_pool, n_initial, n_instances, initial_list,
                   X_training, y_training, oracle, learner, pick_list,
                   g_query_idx, g_y_new, enrichment, baseline, idx_arg,
                   X, y, f_oracle, num_cycles, f_initial_list, f_pick_list,
                   f_learner, i, query_idx, y_new, query_pool>>

\* np.mean(active_learning_hit_count_list) / np.mean(random_hit_count_list)
ExperimentRatio ==
    /\ pc = "t_loop"
    /\ Len(active_learning_hit_count_list) >= NumTrials
    /\ enrichment' = Divide(Mean(active_learning_hit_count_list),
                            Mean(random_hit_count_list))
    /\ pc' = "done"
    /\ UNCHANGED <<df, X_pool, y_pool, n_initial, n_instances, initial_list,
                   X_training, y_training, oracle, walk,
                   active_learning_hit_count_list, frame, baseline, idx_arg,
                   err>>

NextDriver ==
    \/ \E k \in SampleSizes : ExperimentBaselineStart(k)
    \/ ExperimentBaseline
    \/ ExperimentTrialsStart
    \/ ExperimentTrial
    \/ ExperimentRatio

SpecDriver == InitDriver /\ [][NextDriver]_vars

\* --------------------------------------- calls with other X and y
\* run_active_learning(Xa, ya, oracle, num_cycles) with the notebook's
\* oracle and any feature matrix and label vector as X and y.
InitXY == InitSizes(OneRow, OneRow)

NextXY ==
    \/ \E Xa \in ArgMatrices, ya \in LabelVectors, nc \in 0 .. MaxCycles :
           Call(Xa, ya, oracle, nc)
    \/ DrawInitial
    \/ FitLearner
    \/ Query
    \/ OracleLookup
    \/ TeachLearner
    \/ AppendPicks
    \/ Return

SpecXY == InitXY /\ [][NextXY]_vars

\* --------------------------------------------------------- Oracle harness
\* An Oracle built on any frame d, module-level df being any frame, and
\* get_values called on it with any index list.
IdxLists ==
    UNION {[1 .. n -> (0 - M - 1) .. M] : n \in 0 .. MaxIdxLen}

InitOracle ==
    /\ df \in LabelVectors
    /\ X_pool = Fingerprints
    /\ y_pool = df
    /\ n_initial = 0 /\ n_instances = 0
    /\ initial_list = << >> /\ X_training = << >> /\ y_training = << >>
    /\ \E d \in LabelVectors : oracle = OracleInit(d)
    /\ pc = "idle"
    /\ WalkLeftover
    /\ FrameIdle
    /\ ResultsIdle

\* y_new = oracle.get_values(idx_list), called at module level.
GetValuesCall(idx_list) ==
    /\ pc \in {"idle", "looked_up"}
    /\ idx_arg' = idx_list
    /\ IF IndexRaises(idx_list)
       THEN /\ pc' = "raised" /\ err' = "IndexError"
            /\ UNCHANGED y_new
       ELSE /\ y_new' = get_values(oracle, idx_list)
            /\ pc' = "looked_up" /\ err' = err
    /\ UNCHANGED <<globals, baseline, X, y, f_oracle, num_cycles,
                   f_initial_list, f_pick_list, f_learner, i, query_idx,
                   num_hits, query_pool>>

NextOracle == \E idx_list \in IdxLists : GetValuesCall(idx_list)

SpecOracle == InitOracle /\ [][NextOracle]_vars

\* ============================================================ properties
\* Sum over the pool rows 0 .. n-1 of (occurrences in s) * (label).
RECURSIVE WeightedHits(_, _, _)
WeightedHits(labels, s, n) ==
    IF n = 0 THEN 0
    ELSE Occ(s, n - 1) * labels[n - 1] + WeightedHits(labels, s, n - 1)

\* s holds exactly k pairwise distinct indices, each in [0, M).
IsDistinctSample(s, k) ==
    /\ Len(s) = k
    /\ \A p \in 1 .. Len(s) : s[p] >= 0 /\ s[p] < M
    /\ \A a, b \in 1 .. Len(s) : a # b => s[a] # s[b]

\* Control positions of run_active_learning after its initial draw.
AfterDraw == {"fit", "loop", "oracle", "teach", "append", "returned"}

\* Control positions of run_active_learning after its learner is built.
AfterFit == {"loop", "oracle", "teach", "append", "returned"}

\* The size the selection set has when the trial returns.
FinalSize == n_initial + num_cycles * n_instances

\* C1: the value returned by run_active_learning is the sum of the labels
\* over every position of the final selection set, which is the initial
\* sample followed by the queried batches: an index selected c times
\* contributes c times its label, nothing is deduplicated.
C1_ReturnCountsEveryOccurrence ==
    pc = "returned" =>
        /\ Len(f_pick_list) = FinalSize
        /\ SubSeq(f_pick_list, 1, n_initial) = f_initial_list
        /\ num_cycles > 0 =>
               SubSeq(f_pick_list, FinalSize - n_instances + 1, FinalSize)
                   = query_idx
        /\ num_hits = WeightedHits(y, f_pick_list, M)

\* C1 witness: a trial returned whose selection set holds a positive row
\* more than once.
C1_Witness ==
    /\ pc = "returned"
    /\ num_cycles >= 1
    /\ \E j \in Idx : Occ(f_pick_list, j) >= 2 /\ y[j] = 1

\* C2 (as claimed): once the trial's learner is built, and before it is
\* taught anything, its training data are the features and labels at the
\* indices of this trial's own initial sample.
C2_FitOnOwnSample ==
    (pc = "loop" /\ i = 0) =>
        /\ f_learner.X_training = Take(X_pool, f_initial_list)
        /\ f_learner.y_training = Take(y_pool, f_initial_list)

\* C3: a trial that returns, returns a hit count h with
\* 0 <= h <= n_initial + num_cycles * n_instances.
C3_HitCountBounded ==
    pc = "returned" => (num_hits >= 0 /\ num_hits <= FinalSize)

\* C3 witness: a trial of at least one cycle returned the largest count
\* the bound allows.
C3_Witness ==
    /\ pc = "returned"
    /\ num_cycles >= 1 /\ n_instances >= 1
    /\ num_hits = FinalSize

\* C4: every random draw of size k <= M (the initial sample of the
\* walkthrough, the initial sample of a trial, a baseline sample) holds
\* exactly k pairwise distinct indices, each in [0, M).
C4_DrawsAreDistinctSamples ==
    /\ n_initial <= M => IsDistinctSample(initial_list, n_initial)
    /\ pc \in AfterDraw => IsDistinctSample(f_initial_list, n_initial)
    /\ pc \in {"b_tally", "b_done"} =>
           IsDistinctSample(random_list, baseline_k)

\* C4 witness: a trial and a baseline iteration each drew a sample of the
\* whole pool.
C4_WitnessTrial == pc = "fit" /\ n_initial = M /\ Len(f_initial_list) = M

C4_Witness ==
    pc = "b_tally" /\ baseline_k = M /\ Len(random_list) = M /\ M >= 2

\* C5: a baseline iteration with sample size k draws k distinct indices of
\* [0, M) and records the number of positive labels among exactly those
\* indices; with k = 0 the index set is empty and the count is 0.
C5_BaselineCountsItsSample ==
    pc = "b_done" =>
        /\ IsDistinctSample(random_list, baseline_k)
        /\ Len(random_hit_count_list) = 1
        /\ random_hit_count_list[1] =
               Cardinality({j \in Idx : Occ(random_list, j) = 1 /\ df[j] = 1})
        /\ baseline_k = 0 =>
               (random_list = << >> /\ random_hit_count_list[1] = 0)

\* C5 witness: a baseline iteration recorded a sample that holds both a
\* positive and a negative row.
C5_Witness ==
    /\ pc = "b_done"
    /\ \E a, b \in 1 .. Len(random_list) :
           df[random_list[a]] = 1 /\ df[random_list[b]] = 0

\* C5 witness for k = 0.
C5_WitnessEmpty ==
    pc = "b_done" /\ baseline_k = 0 /\ \E j \in Idx : df[j] = 1

\* Hits over the current selection set of the running trial.
CumulativeHits == WeightedHits(y_pool, f_pick_list, M)

\* C7: within a trial the cumulative hit count, the sum of the labels over
\* the current selection set, never decreases from one step to the next.
C7_CumulativeHitsMonotone ==
    [][(pc \in AfterDraw) => (CumulativeHits' >= CumulativeHits)]_vars

\* C7 witness: after two cycles the count has grown beyond that of the
\* initial sample.
C7_Witness ==
    /\ pc = "loop" /\ i = 2
    /\ CumulativeHits > WeightedHits(y_pool, f_initial_list, M)

\* C8: when every label of the pool is 0, a trial returns exactly 0.
C8_AllZeroPoolGivesZero ==
    (pc = "returned" /\ \A j \in Idx : y_pool[j] = 0) => num_hits = 0

\* C8 witness: a trial over an all-zero pool returned after selecting rows
\* in its initial sample and in a cycle.
C8_Witness ==
    /\ pc = "returned"
    /\ \A j \in Idx : y_pool[j] = 0
    /\ n_initial >= 1 /\ num_cycles >= 1 /\ n_instances >= 1

\* C9: when every label of the pool is 1, a trial returns exactly
\* n_initial + num_cycles * n_instances, repeated indices included.
C9_AllOnePoolGivesFinalSize ==
    (pc = "returned" /\ \A j \in Idx : y_pool[j] = 1) =>
        num_hits = FinalSize

\* C9 witness: a trial over an all-one pool returned with more selections
\* than the pool has rows.
C9_Witness ==
    /\ pc = "returned"
    /\ \A j \in Idx : y_pool[j] = 1
    /\ FinalSize > M

\* C10 (as claimed): get_values returns, in the order of idx_list, the
\* labels of the frame the Oracle instance was constructed with.
C10_LookupReadsOwnFrame ==
    pc = "looked_up" => y_new = Take(oracle.df, idx_arg)

\* C11: no step changes the pool: the feature matrix X_pool, the label
\* vector y_pool and the label column of df stay as loaded.
C11_PoolImmutable ==
    [][X_pool' = X_pool /\ y_pool' = y_pool /\ df' = df]_vars

\* C11 witness: a trial that queried, looked up, taught and appended has
\* returned, and the pool is as it was loaded.
C11_Witness ==
    /\ pc = "returned" /\ i >= 1 /\ Len(query_idx) >= 1
    /\ X_pool = Fingerprints /\ y_pool = df

\* C13 (as claimed): with n_initial > M or n_instances > M the trial is
\* rejected at its start: it never gets past the initial draw, so the
\* learner is never fitted, no cycle runs and no hit count is returned.
C13_OversizeRejectedAtStart ==
    (n_initial > M \/ n_instances > M) =>
        (pc \notin AfterFit /\ num_hits = -1)

\* C14 (as claimed): a lookup of an index outside [0, M), negative ones
\* included, returns no label.
C14_OutOfRangeLookupFails ==
    pc = "looked_up" =>
        \A p \in 1 .. Len(idx_arg) : idx_arg[p] >= 0 /\ idx_arg[p] < M

\* The learner has been taught c batches and the selection set holds c
\* batches.
CyclesDone(c) ==
    /\ Len(f_learner.y_training) = Len(y_training) + c * n_instances
    /\ Len(f_pick_list) = n_initial + c * n_instances

\* The order of the steps of a trial, as a relation on control positions.
StepOrder ==
    /\ pc = "draw" => pc' \in {"fit", "raised"}
    /\ pc = "fit" => pc' \in {"loop", "raised"}
    /\ pc = "loop" => pc' \in {"oracle", "returned", "raised"}
    /\ pc = "oracle" => pc' \in {"teach", "raised"}
    /\ pc = "teach" => pc' = "append"
    /\ pc = "append" => pc' = "loop"
    /\ pc = "returned" => pc' = "returned"

\* C16: a trial runs initial draw, fit, then num_cycles times query, Oracle
\* lookup, Model update, append, then the tally; a query is made only when
\* the learner has been updated with, and the selection set extended by,
\* every earlier batch, and the tally is made only after the last append.
C16_TrialStepOrder ==
    [][/\ StepOrder
       /\ (pc = "fit" /\ pc' = "loop") =>
              (f_pick_list = f_initial_list /\ f_learner' # f_learner)
       /\ (pc = "loop" /\ pc' = "oracle") => (i < num_cycles /\ CyclesDone(i))
       /\ (pc = "oracle" /\ pc' = "teach") =>
              (Len(y_new') = n_instances /\ f_learner' = f_learner)
       /\ (pc = "teach" /\ pc' = "append") =>
              (Len(f_learner'.y_training)
                   = Len(f_learner.y_training) + n_instances
               /\ f_pick_list' = f_pick_list)
       /\ (pc = "append" /\ pc' = "loop") => (i' = i + 1 /\ CyclesDone(i)')
       /\ (pc = "loop" /\ pc' = "returned") =>
              (i = num_cycles /\ CyclesDone(num_cycles))]_vars

\* C16 witness: a trial of two cycles has returned.
C16_Witness ==
    pc = "returned" /\ num_cycles = 2 /\ i = 2 /\ n_instances >= 1

\* a is a prefix of b.
IsPrefix(a, b) == Len(a) <= Len(b) /\ SubSeq(b, 1, Len(a)) = a

\* C18: the selection set only grows and keeps its order: after i cycles
\* its length is n_initial + i * n_instances, each step leaves the earlier
\* selection set a prefix of the later one, and the initial sample stays
\* its first n_initial entries.
C18_SelectionSetGrows ==
    /\ [](pc \in {"loop", "returned"} =>
             /\ Len(f_pick_list) = n_initial + i * n_instances
             /\ SubSeq(f_pick_list, 1, n_initial) = f_initial_list)
    /\ [][(pc \in AfterDraw) => IsPrefix(f_pick_list, f_pick_list')]_vars

\* C18 witness: two cycles appended to a non-empty initial sample.
C18_Witness ==
    /\ pc = "loop" /\ i = 2
    /\ n_initial >= 1 /\ n_instances >= 1
    /\ \E p \in 1 .. n_instances :
           f_pick_list[n_initial + p] # f_pick_list[n_initial + n_instances + p]

\* The queried batches held by the selection set, in order.
QueriedSoFar == SubSeq(f_pick_list, n_initial + 1, Len(f_pick_list))

\* C19: after the Model update of cycle i the learner's training data is
\* the data it was built on followed by the batches of cycles 1..i in
\* order, each the features and labels at that cycle's queried indices.
C19_TrainingDataAccumulates ==
    /\ pc \in {"loop", "returned"} =>
           /\ f_learner.X_training = X_training \o Take(X_pool, QueriedSoFar)
           /\ f_learner.y_training = y_training \o Take(y_pool, QueriedSoFar)
    /\ pc = "append" =>
           /\ f_learner.X_training
                  = X_training \o Take(X_pool, QueriedSoFar \o query_idx)
           /\ f_learner.y_training
                  = y_training \o Take(y_pool, QueriedSoFar \o query_idx)

\* C19 witness: the learner was taught two batches that differ.
C19_Witness ==
    /\ pc = "loop" /\ i = 2 /\ n_instances >= 1
    /\ SubSeq(QueriedSoFar, 1, n_instances) # query_idx

\* C20: in every cycle the query is offered the full pool of M rows, rows
\* already in the selection set included, and yields n_instances indices
\* in [0, M).
C20_QueryOverFullPool ==
    pc \in {"oracle", "teach", "append"} =>
        /\ query_pool = X_pool
        /\ DOMAIN query_pool = Idx
        /\ Len(query_idx) = n_instances
        /\ \A p \in 1 .. Len(query_idx) : query_idx[p] >= 0 /\ query_idx[p] < M

\* C20 witness: a query in the second cycle returned a row that is already
\* in the selection set.
C20_Witness ==
    /\ pc = "oracle" /\ i = 1
    /\ \E p \in 1 .. Len(query_idx) : Occ(f_pick_list, query_idx[p]) >= 1

\* C17 (as claimed): in every cycle the labels the Model is updated with
\* are the labels the Oracle returned for that cycle's queried indices.
C17_TaughtLabelsAreOracleAnswers ==
    pc = "append" =>
        SubSeq(f_learner.y_training,
               Len(f_learner.y_training) - n_instances + 1,
               Len(f_learner.y_training)) = y_new

\* C12: every trial builds its own Model and Selection Set.  When trial j
\* enters its loop, the Model's training data is the initial training set
\* alone (no batch taught by an earlier trial or by the walkthrough loop)
\* and the selection set is the trial's own fresh draw of n_initial
\* indices (no index an earlier trial appended); no step of a trial writes
\* the walkthrough's learner or selection set, and a recorded hit count is
\* never rewritten.
TrialStart == pc = "loop" /\ i = 0

C12_TrialStateIsFresh ==
    /\ [](TrialStart =>
            /\ f_learner = ActiveLearner(Take(X_pool, initial_list),
                                         Take(y_pool, initial_list))
            /\ Len(f_learner.X_training) = n_initial
            /\ f_pick_list = f_initial_list
            /\ IsDistinctSample(f_pick_list, n_initial))
    /\ [][/\ UNCHANGED <<learner, pick_list, initial_list, X_training,
                         y_training>>
          /\ (pc # "idle") => IsPrefix(active_learning_hit_count_list,
                                       active_learning_hit_count_list')]_vars

C12_Witness ==
    /\ TrialStart
    /\ Len(active_learning_hit_count_list) >= 1
    /\ Len(query_idx) = n_instances
    /\ Len(learner.X_training) > n_initial
    /\ Len(pick_list) > n_initial

\* C15: the experiment runs the baseline NumTrials times and the trial
\* runner NumTrials times; every run appends its own result at the end of
\* its list, so that on completion both lists hold exactly NumTrials
\* entries in run order, and the enrichment reported is the mean of the
\* active-learning list divided by the mean of the baseline list.
C15_DriverCollectsAndDivides ==
    /\ [](pc = "done" =>
            /\ Len(active_learning_hit_count_list) = NumTrials
            /\ Len(random_hit_count_list) = NumTrials
            /\ enrichment.num = SumSeq(active_learning_hit_count_list)
                                    * Len(random_hit_count_list)
            /\ enrichment.den = Len(active_learning_hit_count_list)
                                    * SumSeq(random_hit_count_list))
    /\ [][/\ (pc = "r_loop" /\ pc' = "r_loop") =>
                 /\ IsDistinctSample(random_list', baseline_k)
                 /\ random_hit_count_list' =
                        random_hit_count_list
                            \o << WeightedHits(df, random_list', M) >>
          /\ (pc = "t_loop" /\ pc' = "t_loop") =>
                 /\ active_learning_hit_count_list' =
                        active_learning_hit_count_list \o << num_hits' >>
                 /\ random_hit_count_list' = random_hit_count_list]_vars

C15_Witness ==
    /\ pc = "done"
    /\ enrichment.den > 0
    /\ enrichment.num > enrichment.den
    /\ active_learning_hit_count_list[1]
           # active_learning_hit_count_list[NumTrials]
    /\ random_hit_count_list[1] # random_hit_count_list[NumTrials]

\* A returned hit count is one RunResults allows: the one-step trial of the
\* experiment and the stepwise trial agree.
RunResultsCoverReturn ==
    pc = "returned" =>
        /\ ~RunRaises(num_cycles)
        /\ num_hits \in RunResults(y, num_cycles)

\* C21: in every state of a trial every index of the selection set and
\* every index handed to the Oracle lies in [0, M), and no Oracle lookup of
\* a trial fails.
InPool(s) == \A p \in 1 .. Len(s) : s[p] >= 0 /\ s[p] < M

C21_TrialIndicesInPool ==
    /\ InPool(f_pick_list)
    /\ InPool(query_idx)
    /\ err # "IndexError"
    /\ pc \in {"teach", "append"} => Len(y_new) = Len(query_idx)

C21_Witness ==
    /\ pc = "teach"
    /\ i >= 1
    /\ Len(query_idx) >= 1
    /\ \E p \in 1 .. Len(query_idx) : query_idx[p] = M - 1
    /\ \E p \in 1 .. Len(f_pick_list) : f_pick_list[p] = M - 1

\* C22 (as claimed): when n_initial <= M and n_instances <= M but
\* n_initial + num_cycles * n_instances > M, the trial does not fail: it
\* returns only after all num_cycles cycles, with a selection set that
\* holds some index more than once.
Overflow == n_initial <= M /\ n_instances <= M /\ FinalSize > M

HasDuplicate(s) == \E a, b \in 1 .. Len(s) : a # b /\ s[a] = s[b]

OverflowTrialCompletes ==
    /\ pc # "raised"
    /\ pc = "returned" =>
           /\ i = num_cycles
           /\ Len(f_learner.X_training) = FinalSize
           /\ Len(f_pick_list) = FinalSize
           /\ HasDuplicate(f_pick_list)

C22_OverflowNeverFails == Overflow => OverflowTrialCompletes

\* C22 (amended): the same, for a non-empty initial sample (n_initial >= 1);
\* with n_initial = 0 the learner is fitted on zero rows and the trial fails
\* before its first cycle.
C22_OverflowWithInitialSampleNeverFails ==
    (Overflow /\ n_initial >= 1) => OverflowTrialCompletes

\* The hit count returned exceeds the number of positive labels in the pool.
C22_Witness ==
    /\ Overflow /\ n_initial >= 1
    /\ pc = "returned"
    /\ num_hits > Cardinality({j \in Idx : df[j] = 1})

\* C23: there are no retries.  The step that fails records nothing, and
\* once a step of a trial has failed the trial makes no further query,
\* Oracle lookup, Model update or append and returns no hit count; the
\* hit counts recorded for other trials stay as they are.
C23_FailureAbortsTrial ==
    [][/\ (err' # "") =>
              /\ pc' = "raised"
              /\ num_hits' = num_hits
              /\ f_learner' = f_learner /\ f_pick_list' = f_pick_list
              /\ y_new' = y_new
              /\ active_learning_hit_count_list' = active_learning_hit_count_list
       /\ (err # "") => (frame' = frame /\ results' = results)]_vars

\* A trial after the first fails in its loop, with a count recorded before.
C23_Witness ==
    /\ pc = "raised"
    /\ Len(active_learning_hit_count_list) >= 1
    /\ i >= 1
    /\ Len(f_learner.X_training) > n_initial

\* C29: a failure inside trial i stops the trial loop.  No hit count is
\* appended for trial i, no later trial is started, and the result list
\* keeps exactly the counts of the i - 1 trials before it (the loop
\* variable counts from zero, so i - 1 is its value at the failing trial).
C29_FailureStopsDriver ==
    /\ [](pc = "raised" =>
            /\ Len(active_learning_hit_count_list) = g_i
            /\ Len(active_learning_hit_count_list) < NumTrials)
    /\ [][(pc = "raised") =>
             /\ pc' = "raised"
             /\ g_i' = g_i
             /\ active_learning_hit_count_list'
                    = active_learning_hit_count_list]_vars

\* The last trial fails after every earlier one recorded its count.
C29_Witness ==
    /\ pc = "raised"
    /\ NumTrials > 1
    /\ g_i = NumTrials - 1
    /\ Len(active_learning_hit_count_list) = NumTrials - 1
    /\ num_hits = active_learning_hit_count_list[NumTrials - 1]

\* C24 (as claimed): run_active_learning performs the procedure of the
\* walkthrough cells.  In the walkthrough the model is fitted on the sample
\* that seeds the selection set and taught every batch appended to it, so
\* at every loop head its training data is the pool at the selection set;
\* the function keeps the same relation between its own model and its own
\* selection set, and a call that made the walkthrough's choices returns
\* the walkthrough's final hit count.
TrainedOnSelection(l, picks) ==
    /\ l.X_training = Take(X_pool, picks)
    /\ l.y_training = Take(y_pool, picks)

C24_FunctionRefinesWalkthrough ==
    /\ WalkRuns => TrainedOnSelection(learner, pick_list)
    /\ pc \in {"loop", "returned"} =>
           TrainedOnSelection(f_learner, f_pick_list)
    /\ (pc = "returned" /\ f_pick_list = pick_list) =>
           num_hits = Tally(y_pool, pick_list)

C26_TrialTerminates ==
    /\ (pc = "draw") ~> (pc \in {"returned", "raised"})
    /\ [](pc = "returned" =>
            /\ i = num_cycles
            /\ Len(f_learner.X_training) = n_initial + num_cycles * n_instances
            /\ Len(f_pick_list) = n_initial + num_cycles * n_instances)
    /\ []((pc = "returned" /\ num_cycles = 0) =>
            /\ query_idx = << >> /\ y_new = << >> /\ query_pool = << >>
            /\ f_learner = ActiveLearner(X_training, y_training)
            /\ f_pick_list = f_initial_list
            /\ num_hits = WeightedHits(y_pool, f_initial_list, M))
    /\ [](pc \in {"oracle", "teach", "append"} => i < num_cycles)

\* A call with num_cycles = 0 has returned a positive count.
C26_Witness ==
    /\ pc = "returned"
    /\ num_cycles = 0
    /\ num_hits >= 1
    /\ query_idx = << >>

\* A call with the most cycles has returned.
C26_WitnessCycles ==
    /\ pc = "returned"
    /\ num_cycles = MaxCycles
    /\ i = MaxCycles

\* C27: the arguments X and y do not steer a trial.  Whatever X and y are,
\* the query ranks the module-level pool, the Model's training data is
\* module-level data at the rows drawn and queried, and the Oracle is asked
\* about the queried rows, so that calls that differ in X or y and make the
\* same choices hold the same selection set and Model; y enters the final
\* tally alone, X nothing.
ModuleLevelLearner(rows) ==
    [X_training |-> Take(X_pool, initial_list) \o Take(X_pool, rows),
     y_training |-> Take(y_pool, initial_list) \o Take(y_pool, rows)]

C27_ArgumentsDoNotSteer ==
    /\ [](query_pool \in {<< >>, X_pool})
    /\ [](pc \in {"loop", "returned"} =>
            f_learner = ModuleLevelLearner(QueriedSoFar))
    /\ [](pc \in {"teach", "append"} => y_new = Take(df, query_idx))
    /\ [](pc = "returned" => num_hits = WeightedHits(y, f_pick_list, M))
    /\ [][(pc # "idle") => (X' = X /\ y' = y)]_vars

\* A call with a foreign X and a foreign y has returned after a cycle, with
\* a count that the module-level labels would not give.
C27_Witness ==
    /\ pc = "returned"
    /\ i >= 1
    /\ X # X_pool
    /\ y # y_pool
    /\ num_hits # WeightedHits(y_pool, f_pick_list, M)

\* C28: the hit count of a baseline iteration is the number of positive
\* rows among its k distinct indices, hence at most k and at most the
\* number of positive labels in the pool; it depends on the label vector
\* and the sample alone, and the iteration writes neither the Model, nor a
\* selection set, nor a result of an active-learning trial.
PositivesInPool == Cardinality({j \in Idx : df[j] = 1})

C28_BaselineBoundedByPositives ==
    /\ [](pc = "b_done" =>
            LET h == random_hit_count_list[Len(random_hit_count_list)]
            IN /\ h = Cardinality({j \in Idx :
                          df[j] = 1 /\ Occ(random_list, j) > 0})
               /\ h <= baseline_k
               /\ h <= PositivesInPool)
    /\ [][(pc' \in {"b_tally", "b_done"}) =>
              UNCHANGED <<learner, pick_list, frame, results, df,
                          y_pool>>]_vars

\* A baseline iteration that drew the whole pool, not all of it positive,
\* next to a walkthrough Model that was taught.
C28_Witness ==
    /\ pc = "b_done"
    /\ baseline_k = M
    /\ random_hit_count_list = << PositivesInPool >>
    /\ PositivesInPool >= 1 /\ PositivesInPool < M
    /\ Len(learner.X_training) > n_initial

====
